---- MODULE Spec2Model ----
(***************************************************************************)
(* Model of the ch4 kernel of rCore-Tutorial-in-single-workspace: loading  *)
(* of the embedded applications (rust_main, Process::new), the cooperative *)
(* scheduler loop (schedule) and the syscall implementations of            *)
(* impls::SyscallContext, over a small paged memory.                       *)
(*                                                                         *)
(* Scale of the model: a page holds PageSize cells, a virtual address is   *)
(* vpn * PageSize + offset, a top-level page-table entry covers TopSpan    *)
(* virtual pages.  A cell stands for one byte of a WRITE buffer and for    *)
(* one machine word of a TimeSpec.                                         *)
(***************************************************************************)
EXTENDS Integers, Sequences, FiniteSets, TLC

\* ---------------------------------------------------------------- bounds
MaxApps  == 2      \* candidates in the embedded-app table
MaxCalls == 2      \* handled non-EXIT syscalls issued in one run
MaxRegionLen == 2  \* cells in one region of the kernel image

\* ------------------------------------------------------ scaled constants
PageSize       == 2                  \* 1 << VmMode::PAGE_BITS, in cells
TopSpan        == 4                  \* virtual pages under one top-level entry
MaxVpn         == 7                  \* VPN::MAX
PROTAL_TRANSIT == MaxVpn             \* the portal's virtual page
stack_top_vpn  == 4                  \* first page above the user stack
VmModeBits     == 8                  \* satp MODE field (Sv39)
Sv32ModeBits   == 1                  \* satp MODE field (Sv32)
MaxCount       == PageSize           \* largest `count` a program passes to WRITE
NFrames        == 1 + 5 * MaxApps    \* frames handed to the allocator (MEMORY)
KernelRoot     == NFrames            \* root page of the kernel space, outside the pool

VPNs   == 0..MaxVpn
Frames == 0..(NFrames - 1)
Cells  == 0..(NFrames * PageSize - 1)

NL      == 10      \* '\n'
PteByte == 255     \* a byte of a page-table page

\* syscall ABI (crate syscall)
EXIT          == 93
WRITE         == 64
SCHED_YIELD   == 124
CLOCK_GETTIME == 113
READ          == 63
STDIN    == 0
STDOUT   == 1
STDDEBUG == 2
CLOCK_REALTIME  == 0
CLOCK_MONOTONIC == 1

READABLE == {"R", "V"}
WRITABLE == {"W", "V"}

None == -1

VARIABLES
    layout,      \* linker::KernelLayout with MEMORY: the kernel's regions, in cells
    ks,          \* the kernel's address space
    xlen,        \* target_pointer_width of the build: 64 (Sv39) or 32 (Sv32)
    pc,          \* control point of the kernel: load, loop, user, trap, reset, panic
    apps,        \* the embedded-app table: the candidate images, in table order
    appIdx,      \* AppIterator.i
    PROCESSES,   \* the run queue
    mem,         \* physical memory of the pool, cell by cell
    free,        \* frames the allocator has not handed out
    allocHigh,   \* placement policy of the (external) allocator
    satp,        \* active translation root
    scause,      \* trap cause of the last crossing
    console,     \* everything print_with_timestamp has emitted
    LINE_START,  \* static LINE_START
    calls,       \* handled non-EXIT syscalls issued so far
    last,        \* the last decision of the scheduler: what it did (op) for which
                 \* process (pid), the a0 it decoded, the value returned (ret)
                 \* and the length of the console before (from)
    sbi,         \* the machine-mode monitor (msbi.rs): the hart's mode and trap
                 \* registers, the devices it drives and the SbiRet it returned
    appit,       \* linker::AppIterator: the table it walks (meta), its index i,
                 \* the memory it copies in and what its calls of next returned
    clk          \* two readings of the clock: the counter values and the
                 \* times monotonic_time_ns and monotonic_time_ms made of them

vars == <<layout, ks, xlen, pc, apps, appIdx, PROCESSES, mem, free, allocHigh, satp, scause,
          console, LINE_START, calls, last, sbi, appit, clk>>

\* ------------------------------------------------------- embedded images
\* An image is what xmas_elf reads from the candidate's bytes: whether they
\* parse, the header fields Process::new looks at, and the loadable
\* segments with their file bytes (elf.input[off_file..][..len_file]).
Seg(off, va, data, msz, fl) ==
    [offset |-> off, virtual_addr |-> va, data |-> data, mem_size |-> msz, flags |-> fl]

Img(parses, ty, mach, class, entry, segs) ==
    [parses |-> parses, type |-> ty, machine |-> mach, class |-> class,
     entry_point |-> entry, segs |-> segs]

ImgA == Img(TRUE, "Executable", "RISC_V", "Header64", 16,
            << Seg(0, 0, <<97, NL>>, 2, {"X", "R"}),
               Seg(2, 2, <<98>>, 2, {"W", "R"}) >>)
ImgB == Img(TRUE, "Executable", "RISC_V", "Header64", 32,
            << Seg(1, 3, <<NL>>, 1, {"R"}) >>)
ImgShared     == [ImgA EXCEPT !.type = "SharedObject"]
ImgX86        == [ImgA EXCEPT !.machine = "X86_64"]
ImgClass32    == [ImgA EXCEPT !.class = "Header32"]
ImgGarbage    == [ImgA EXCEPT !.parses = FALSE]
ImgB32        == [ImgB EXCEPT !.class = "Header32"]
ImgHigh       == Img(TRUE, "Executable", "RISC_V", "Header64", 24,
                     << Seg(0, 12, <<99>>, 1, {"R"}) >>)
ImgMisaligned == Img(TRUE, "Executable", "RISC_V", "Header64", 16,
                     << Seg(1, 2, <<97>>, 1, {"R"}) >>)

\* the images the linked table is drawn from
Candidates == {ImgA, ImgB}

RECURSIVE SeqsUpTo(_, _)
SeqsUpTo(S, n) ==
    IF n = 0 THEN {<<>>}
    ELSE LET shorter == SeqsUpTo(S, n - 1)
         IN  shorter \cup {Append(q, x) : q \in shorter, x \in S}

\* ------------------------------------------------------------- allocator
\* kernel_alloc is a buddy allocator outside this code: a request for n
\* contiguous pages is answered with the lowest or with the highest free
\* run, depending on the policy chosen at boot.
HasRun(fr, b, n) == \A k \in 0..(n - 1) : (b + k) \in fr
Runs(fr, n)      == {b \in Frames : HasRun(fr, b, n)}
AllocBase(fr, n, high) ==
    IF Runs(fr, n) = {} THEN None
    ELSE IF high THEN CHOOSE b \in Runs(fr, n) : \A c \in Runs(fr, n) : c <= b
    ELSE CHOOSE b \in Runs(fr, n) : \A c \in Runs(fr, n) : b <= c
Take(fr, b, n) == fr \ {b + k : k \in 0..(n - 1)}

\* alloc_zeroed: the cells of pages b .. b+n-1 become 0
Zeroed(m, b, n) ==
    [c \in Cells |-> IF c \div PageSize \in b..(b + n - 1) THEN 0 ELSE m[c]]

\* ---------------------------------------------------------- address space
NoPte == [ppn |-> None, flags |-> {}]
Pte(ppn, fl) == [ppn |-> ppn, flags |-> fl]

\* AddressSpace::new over a fresh root page
NewSpace(root) == [root |-> root, pt |-> [v \in VPNs |-> NoPte]]

\* AddressSpace::map_extern: lo .. hi-1 onto consecutive frames from base
map_extern(space, lo, hi, base, fl) ==
    [space EXCEPT !.pt = [v \in VPNs |->
        IF lo <= v /\ v < hi THEN Pte(base + (v - lo), fl) ELSE @[v]]]

\* AddressSpace::translate: the entry of the page that holds addr must
\* carry every required flag; the answer is the physical cell of addr
translate(space, addr, required) ==
    LET vpn == addr \div PageSize
    IN  IF vpn \in VPNs /\ required \subseteq space.pt[vpn].flags
        THEN space.pt[vpn].ppn * PageSize + (addr % PageSize)
        ELSE None

Floor(va) == va \div PageSize
Ceil(va)  == (va + PageSize - 1) \div PageSize
PAGE_MASK == PageSize - 1


\* ------------------------------------------------------------ Process::new
\* AddressSpace::map for one loadable segment: allocate the covering pages
\* zeroed and owned, copy the file bytes at the in-page offset, map them.
\* st = [space, free, mem, ok]; ok turns FALSE when the assertion on the
\* page-internal offsets fails or the allocator has no run left.
MapSegment(st, seg, high) ==
    LET off_mem == seg.virtual_addr
        end_mem == off_mem + seg.mem_size
        lo      == Floor(off_mem)
        hi      == Ceil(end_mem)
        count   == hi - lo
        offset  == off_mem % PageSize
        base    == AllocBase(st.free, count, high)
        first   == base * PageSize + offset
        zero    == Zeroed(st.mem, base, count)
        copied  == [c \in Cells |->
                      IF first <= c /\ c < first + Len(seg.data)
                      THEN seg.data[c - first + 1] ELSE zero[c]]
    IN  IF ~st.ok THEN st
        ELSE IF (seg.offset % PageSize) # (off_mem % PageSize) THEN [st EXCEPT !.ok = FALSE]
        ELSE IF base = None THEN [st EXCEPT !.ok = FALSE]
        ELSE [space |-> map_extern(st.space, lo, hi, base, {"U", "V", "OWNED"} \cup seg.flags),
              free  |-> Take(st.free, base, count),
              mem   |-> copied,
              ok    |-> TRUE]

RECURSIVE MapSegments(_, _, _, _)
MapSegments(st, segs, k, high) ==
    IF k > Len(segs) THEN st
    ELSE MapSegments(MapSegment(st, segs[k], high), segs, k + 1, high)

\* what the build configuration (cfg(target_pointer_width)) selects
VmMode      == IF xlen = 64 THEN VmModeBits ELSE Sv32ModeBits
\* faulty variant: the 64-bit header class is accepted on either build
HeaderClass64 == "Header64"
HeaderClass == IF xlen = 64 THEN "Header64" ELSE "Header32"

\* The 64-bit build sets sp to the literal 1 << SP_BITS; the 32-bit build
\* computes stack_top_vpn << PAGE_BITS.  A cell of the model stands for
\* 2^(PAGE_BITS - 1) bytes and a page of the model for
\* 2^(STACK_TOP_VPN_BITS - 2) pages, so that PageSize is 2 and
\* stack_top_vpn is 4.
SP_BITS            == 38
STACK_TOP_VPN_BITS == 26
PAGE_BITS          == 12
\* faulty variant: sp is the base of the stack range
user_sp_base == (stack_top_vpn - 2) * PageSize

user_sp ==
    IF xlen = 64
    THEN 2 ^ (SP_BITS - (PAGE_BITS - 1) - (STACK_TOP_VPN_BITS - 2))
    ELSE stack_top_vpn * PageSize

\* LocalContext::user(entry): a zeroed register file with pc = entry
UserContext(entry) == [pc |-> entry, sp |-> 0, a0 |-> 0, a1 |-> 0, a2 |-> 0, a7 |-> 0]

\* faulty variant: the token of the kernel's space is saved
TokenOfKernel(space) == <<VmMode, KernelRoot>>

\* the satp value saved with the context: mode bits | root_ppn
Token(space) == <<VmMode, space.root>>

\* Process::new(elf): [tag, process, free, mem], tag one of Some, None, panic
ProcessNew(elf, id, fr, m, high) ==
    LET rootB   == AllocBase(fr, 1, high)
        st0     == [space |-> NewSpace(rootB),
                    free  |-> Take(fr, rootB, 1),
                    mem   |-> [c \in Cells |-> IF c \div PageSize = rootB THEN PteByte ELSE m[c]],
                    ok    |-> rootB # None]
        st1     == MapSegments(st0, elf.segs, 1, high)
        stackB  == AllocBase(st1.free, 2, high)
        space   == map_extern(st1.space, stack_top_vpn - 2, stack_top_vpn, stackB,
                              {"U", "W", "R", "V"})
        context == [UserContext(elf.entry_point) EXCEPT !.sp = user_sp]
        process == [id |-> id,
                    context |-> context,
                    satp |-> Token(space),
                    address_space |-> space]
        nothing == [tag |-> "None", process |-> <<>>, free |-> fr, mem |-> m]
    IN  IF ~(elf.class = HeaderClass /\ elf.type = "Executable" /\ elf.machine = "RISC_V")
        THEN nothing
        ELSE IF ~st1.ok \/ stackB = None
        THEN [nothing EXCEPT !.tag = "panic"]
        ELSE [tag |-> "Some", process |-> process,
              free |-> Take(st1.free, stackB, 2),
              mem  |-> Zeroed(st1.mem, stackB, 2)]

\* ------------------------------------------------------------ kernel_space
\* A layout is [start, end, memory, regions], a region [title, lo, hi]
\* with lo .. hi-1 its cells.
Region(title, lo, hi) == [title |-> title, lo |-> lo, hi |-> hi]

RegionFlags(title) ==
    IF title = "Text" THEN {"X", "R", "V"}
    ELSE IF title = "Rodata" THEN {"R", "V"}
    ELSE {"W", "R", "V"}

\* `for region in layout.iter()`, from region k on: each region is mapped
\* page by page onto the frames of the same numbers
RECURSIVE MapRegions(_, _, _)
MapRegions(space, regions, k) ==
    IF k > Len(regions) THEN space
    ELSE MapRegions(map_extern(space, Floor(regions[k].lo), Ceil(regions[k].hi),
                               Floor(regions[k].lo), RegionFlags(regions[k].title)),
                    regions, k + 1)

\* faulty variant: the heap is mapped from the frame after its first one
kernel_space_heap_shifted(l, portal) ==
    LET regions == MapRegions(NewSpace(KernelRoot), l.regions, 1)
        heap    == map_extern(regions, Floor(l.end), Ceil(l.start + l.memory),
                              Floor(l.end) + 1, {"W", "R", "V"})
    IN  map_extern(heap, PROTAL_TRANSIT, PROTAL_TRANSIT + 1, portal,
                   {"G", "X", "W", "R", "V"})

\* kernel_space(layout, memory, portal): the regions, the heap from the end
\* of the image to start + memory, and the portal page
kernel_space(l, portal) ==
    LET regions == MapRegions(NewSpace(KernelRoot), l.regions, 1)
        heap    == map_extern(regions, Floor(l.end), Ceil(l.start + l.memory),
                              Floor(l.end), {"W", "R", "V"})
    IN  map_extern(heap, PROTAL_TRANSIT, PROTAL_TRANSIT + 1, portal,
                   {"G", "X", "W", "R", "V"})

\* The specifications of the processes leave the kernel's own image out:
\* the kernel reaches the memory of the pool by its physical cells, and its
\* space holds the portal only.
NoLayout == [start |-> 0, end |-> 0, memory |-> 0, regions |-> <<>>]

\* ------------------------------------------------- the monitor (msbi.rs)
\* A register is held as 16-bit limbs, least significant first: a usize
\* has xlen / 16 of them, a u64 has four.
U16   == 2 ^ 16
usize == 1..(xlen \div 16)
u64   == 1..(64 \div 16)

\* faulty variant: the sentinel is the widest byte
u8_MAX == [i \in usize |-> IF i = 1 THEN 255 ELSE 0]

\* n as usize, for 0 <= n < 2^31
Word(n)   == [i \in usize |-> IF i = 1 THEN n % U16 ELSE IF i = 2 THEN n \div U16 ELSE 0]
usize_MAX == [i \in usize |-> U16 - 1]

\* `w as u64`, `d << 32`, `x | y` on u64, `c as u8`, `w == 0`
as_u64(w) == [i \in u64 |-> IF i \in DOMAIN w THEN w[i] ELSE 0]
shl_32(d) == [i \in u64 |-> IF i > 32 \div 16 THEN d[i - 32 \div 16] ELSE 0]

RECURSIVE BitOr(_, _)
BitOr(a, b) ==
    IF a = 0 THEN b
    ELSE IF b = 0 THEN a
    ELSE (IF a % 2 = 1 \/ b % 2 = 1 THEN 1 ELSE 0) + 2 * BitOr(a \div 2, b \div 2)

bitor(x, y) == [i \in u64 |-> BitOr(x[i], y[i])]
as_u8(w)    == w[1] % 256
is_zero(w)  == \A i \in DOMAIN w : w[i] = 0

\* mod eid
LEGACY_CONSOLE_PUTCHAR == 1
LEGACY_CONSOLE_GETCHAR == 2
LEGACY_SHUTDOWN        == 8
BASE                   == 16
TIMER                  == 1414090053
SRST                   == 1397904212

\* mod error
SUCCESS           == 0
ERR_NOT_SUPPORTED == -2

FINISHER_PASS == 21845
FINISHER_FAIL == 13107

\* mcause of an environment call from S-mode
EnvCallFromS == 9

\* the bits of the line-status register the monitor reads
LSR_THRE == 32
LSR_DR   == 1

SbiRet(error, value) == [error |-> error, value |-> value]
success(value)       == SbiRet(SUCCESS, value)
not_supported        == SbiRet(ERR_NOT_SUPPORTED, Word(0))

\* The hart and the devices the monitor drives.  mode: "S" the supervisor
\* runs, "M" m_trap_handler has returned and the entry stub is about to
\* resume the supervisor, "spin" putchar waits in its loop, "halt" the
\* `loop {}` behind the finisher write.  thr and rx are the byte waiting in
\* the UART's transmit holding register and in its receive buffer (None:
\* empty), finisher the codes written to the test device.
NoCall  == [mcause |-> None, eid |-> None, fid |-> None, a0 |-> <<>>, a1 |-> <<>>]
NoRet   == SbiRet(None, <<>>)
SbiIdle == [mode |-> "S", call |-> NoCall, ret |-> NoRet, mtimecmp |-> <<0, 0, 0, 0>>,
            stip |-> FALSE, thr |-> None, rx |-> None, finisher |-> <<>>]

kernel_vars == <<layout, ks, xlen, pc, apps, appIdx, PROCESSES, mem, free, allocHigh, satp,
                 scause, console, LINE_START, calls, last, appit, clk>>

\* the line-status register of the 16550: bit 5 while the holding register
\* is empty, bit 0 while a received byte waits
lsr(s) == (IF s.thr = None THEN LSR_THRE ELSE 0) + (IF s.rx = None THEN 0 ELSE LSR_DR)

is_tx_ready(s) == (lsr(s) \div LSR_THRE) % 2 # 0

\* faulty variant: the store is made without looking at LSR
putchar_unchecked(s, c) == [s EXCEPT !.thr = c]

\* uart::putchar: the store to THR when the loop is left at once, the
\* loop otherwise
putchar(s, c) == IF is_tx_ready(s) THEN [s EXCEPT !.thr = c] ELSE [s EXCEPT !.mode = "spin"]

\* uart::getchar: one read of LSR, and a read of the receive buffer (which
\* empties it) when a byte waits
getchar(s) == IF (lsr(s) \div LSR_DR) % 2 # 0 THEN s.rx ELSE None

handle_console_putchar(s, c) ==
    LET t == putchar(s, as_u8(c))
    IN  IF t.mode = "spin" THEN t ELSE [t EXCEPT !.ret = success(Word(0))]

handle_console_getchar(s) ==
    IF getchar(s) # None
    THEN [s EXCEPT !.rx = None, !.ret = success(Word(getchar(s)))]
    ELSE [s EXCEPT !.ret = success(usize_MAX)]

\* faulty variant: the code is chosen by the reset type
handle_system_reset_by_type(s, reset_type, reset_reason) ==
    [s EXCEPT !.finisher = Append(@, IF is_zero(reset_type) THEN FINISHER_PASS
                                                            ELSE FINISHER_FAIL),
              !.mode = "halt"]

\* the store to the finisher, then `loop {}`: no SbiRet is ever returned
handle_system_reset(s, reset_type, reset_reason) ==
    [s EXCEPT !.finisher = Append(@, IF is_zero(reset_reason) THEN FINISHER_PASS
                                                              ELSE FINISHER_FAIL),
              !.mode = "halt"]

handle_legacy_shutdown(s) == handle_system_reset(s, Word(0), Word(0))

handle_base(s, fid) ==
    [s EXCEPT !.ret = CASE fid = 0 -> success(Word(2))
                        [] fid = 1 -> success(Word(0))
                        [] fid = 2 -> success(Word(1))
                        [] fid = 3 -> success(Word(1))
                        [] fid \in {4, 5, 6} -> success(Word(0))
                        [] OTHER -> not_supported]

\* the store to mtimecmp, `csrc mip, 1 << 5`, success(0)
handle_timer(s, time) ==
    [s EXCEPT !.mtimecmp = time, !.stip = FALSE, !.ret = success(Word(0))]

\* `match eid` of m_trap_handler
match_eid(s, a0, a1, fid, eid) ==
    CASE eid = LEGACY_CONSOLE_PUTCHAR -> handle_console_putchar(s, a0)
      [] eid = LEGACY_CONSOLE_GETCHAR -> handle_console_getchar(s)
      [] eid = LEGACY_SHUTDOWN -> handle_legacy_shutdown(s)
      [] eid = BASE -> handle_base(s, fid)
      [] eid = TIMER -> handle_timer(s, bitor(as_u64(a0), shl_32(as_u64(a1))))
      [] eid = SRST -> IF fid = 0 THEN handle_system_reset(s, a0, a1)
                                  ELSE [s EXCEPT !.ret = not_supported]
      [] OTHER -> [s EXCEPT !.ret = not_supported]

\* faulty variant: every trap is served as an environment call
m_trap_handler_any_cause(mcause, a0, a1, a2, fid, eid) ==
    /\ sbi.mode = "S"
    /\ sbi' = match_eid([sbi EXCEPT !.mode = "M", !.ret = NoRet,
                                    !.call = [mcause |-> mcause, eid |-> eid, fid |-> fid,
                                              a0 |-> a0, a1 |-> a1]],
                        a0, a1, fid, eid)
    /\ UNCHANGED kernel_vars

\* A trap of the supervisor into the monitor: the entry stub passes a0..a5,
\* a6 (fid) and a7 (eid), and m_trap_handler reads mcause.  a2..a5 are
\* never looked at.
m_trap_handler(mcause, a0, a1, a2, fid, eid) ==
    /\ sbi.mode = "S"
    /\ LET s == [sbi EXCEPT !.mode = "M", !.ret = NoRet,
                            !.call = [mcause |-> mcause, eid |-> eid, fid |-> fid,
                                      a0 |-> a0, a1 |-> a1]]
       IN  sbi' = IF mcause # EnvCallFromS
                  THEN [s EXCEPT !.ret = not_supported]
                  ELSE match_eid(s, a0, a1, fid, eid)
    /\ UNCHANGED kernel_vars

\* putchar leaves its loop once LSR shows the holding register empty
PutcharReady ==
    /\ sbi.mode = "spin"
    /\ is_tx_ready(sbi)
    /\ sbi' = [sbi EXCEPT !.thr = as_u8(sbi.call.a0), !.ret = success(Word(0)), !.mode = "M"]
    /\ UNCHANGED kernel_vars

\* the entry stub returns (error, value) in a0, a1 and resumes the supervisor
MRet ==
    /\ sbi.mode = "M"
    /\ sbi' = [sbi EXCEPT !.mode = "S", !.call = NoCall, !.ret = NoRet]
    /\ UNCHANGED kernel_vars

\* the UART shifts the held byte out
UartTransmits ==
    /\ sbi.thr # None
    /\ sbi' = [sbi EXCEPT !.thr = None]
    /\ UNCHANGED kernel_vars

\* a byte arrives at the UART
UartReceives ==
    /\ sbi.rx = None
    /\ \E b \in {65, 255} : sbi' = [sbi EXCEPT !.rx = b]
    /\ UNCHANGED kernel_vars

\* ------------------------------------------- AppIterator (linker/src/app.rs)
\* The slot of a relocated image is 0x20_0000 bytes; here it is SLOT cells.
\* Memory is AppMemLen cells; the images are embedded one after the other
\* from EmbedAt on, and the cell at address a of an embedded image holds
\* EmbeddedByte(a).
SLOT            == 4
AppMemLen       == 6 * SLOT
AppAddrs        == 0..(AppMemLen - 1)
EmbedAt         == 3 * SLOT
EmbeddedByte(a) == 100 + a

RECURSIVE SumTo(_, _)
SumTo(sz, k) == IF k = 0 THEN 0 ELSE sz[k] + SumTo(sz, k - 1)

\* app_0_start, .., app_{n-1}_start, app_{n-1}_end for images of the sizes sz
Offsets(sz) == [k \in 1..(Len(sz) + 1) |-> EmbedAt + SumTo(sz, k - 1)]

\* the tables xtask can emit: one or two images, the smallest, a longer and
\* one longer than a slot; no base, or a base with no, a short or a
\* slot-wide step
AppMetas ==
    {[base |-> b, step |-> s, count |-> Len(sz), first |-> Offsets(sz)] :
        b \in {0, SLOT}, s \in {0, 1, SLOT},
        sz \in {q \in SeqsUpTo({1, 2, SLOT + 1}, 2) : q # <<>>}}

\* the answer None of next
NoImage == [ptr |-> None, len |-> 0]

NoAppIterator == [meta |-> [base |-> 0, step |-> 0, count |-> 0, first |-> <<0>>],
                  i |-> 0, st |-> "idle", mem |-> <<>>, out |-> <<>>]

\* AppMeta::iter over a table, with the images embedded in memory
AppIter(meta) ==
    [meta |-> meta, i |-> 0, st |-> "ok",
     mem |-> [a \in AppAddrs |->
                 IF a >= EmbedAt /\ a < meta.first[meta.count + 1] THEN EmbeddedByte(a) ELSE 0],
     out |-> <<>>]

\* AppIterator::next.  st turns "panic" when `[size..]` is out of the
\* slot's range, and "ub" when copy_nonoverlapping is given overlapping
\* ranges or a range outside memory (nothing is known of memory then).
next(it) ==
    IF it.i >= it.meta.count
    THEN [it EXCEPT !.out = Append(@, NoImage)]
    ELSE LET i      == it.i
             pos    == it.meta.first[i + 1]
             size   == it.meta.first[i + 2] - pos
             base   == it.meta.base + i * it.meta.step
             copied == [a \in AppAddrs |->
                           IF a >= base /\ a < base + size THEN it.mem[pos + (a - base)]
                                                           ELSE it.mem[a]]
             filled == [a \in AppAddrs |->
                           IF a >= base + size /\ a < base + SLOT THEN 0 ELSE copied[a]]
         IN  IF base # 0
             THEN IF base + size > AppMemLen \/ base + SLOT > AppMemLen
                     \/ (base < pos + size /\ pos < base + size)
                  THEN [it EXCEPT !.i = i + 1, !.st = "ub"]
                  ELSE IF size > SLOT
                  THEN [it EXCEPT !.i = i + 1, !.st = "panic", !.mem = copied]
                  ELSE [it EXCEPT !.i = i + 1, !.mem = filled,
                                  !.out = Append(@, [ptr |-> base, len |-> size])]
             ELSE [it EXCEPT !.i = i + 1,
                             !.out = Append(@, [ptr |-> pos, len |-> size])]

\* ------------------------------------------------ the clock, at full width
\* The counter and the times as 16-bit limbs, least significant first.
\* x * m in u64, for m < 2^15: limb k of the product takes the carry of the
\* limbs below it, and the carry out of the top limb is what does not fit.
RECURSIVE Carry(_, _, _)
Carry(x, m, k) == IF k = 0 THEN 0 ELSE (x[k] * m + Carry(x, m, k - 1)) \div U16

wrapping_mul(x, m) == [k \in DOMAIN x |-> (x[k] * m + Carry(x, m, k - 1)) % U16]
mul_overflows(x, m) == Carry(x, m, Len(x)) # 0

\* x / d, for d < 2^15: long division from the top limb down
RECURSIVE Rem(_, _, _)
Rem(x, d, k) == IF k > Len(x) THEN 0 ELSE (Rem(x, d, k + 1) * U16 + x[k]) % d

div(x, d) == [k \in DOMAIN x |-> (Rem(x, d, k + 1) * U16 + x[k]) \div d]

\* `x as usize`
as_usize(x) == [k \in usize |-> x[k]]

\* monotonic_time_ns for the counter value c (time::read64() on the 64-bit
\* build, time::read() on the 32-bit build), the product wrapping
time_ns(c) == as_usize(div(wrapping_mul(as_u64(c), 10000), 125))

\* monotonic_time_ms: ns / 1_000_000, taken as two divisions by 1000
time_ms(c) == div(div(time_ns(c), 1000), 1000)

\* x <= y as numbers
RECURSIVE LeqFrom(_, _, _)
LeqFrom(x, y, k) ==
    IF k = 0 THEN TRUE
    ELSE IF x[k] # y[k] THEN x[k] < y[k]
    ELSE LeqFrom(x, y, k - 1)

Leq(x, y) == LeqFrom(x, y, Len(x))

NoReadings == [st |-> "idle", checks |-> FALSE, c |-> <<>>, ns |-> <<>>, ms |-> <<>>]

\* ------------------------------------------------------------------ boot
KernelSatp == <<VmMode, KernelRoot>>
NoLast     == [op |-> "none", pid |-> 0, a0 |-> 0, ret |-> 0, from |-> 0, time |-> 0]

\* The portal page is the first allocation of rust_main; kernel_space maps
\* it at PROTAL_TRANSIT with "__G_XWRV".
PortalFrame(high) == AllocBase(Frames, 1, high)
PortalPte(high)   == Pte(PortalFrame(high), {"G", "X", "W", "R", "V"})

BootFrom(images) ==
    /\ pc = "load"
    /\ layout = NoLayout
    /\ apps \in SeqsUpTo(images, MaxApps)
    /\ appIdx = 0
    /\ PROCESSES = <<>>
    /\ allocHigh \in BOOLEAN
    /\ free = Take(Frames, PortalFrame(allocHigh), 1)
    /\ mem = [c \in Cells |-> 0]
    /\ satp = KernelSatp
    /\ scause = "none"
    /\ console = <<>>
    /\ LINE_START = TRUE
    /\ calls = 0
    /\ last = NoLast
    /\ sbi = SbiIdle
    /\ appit = NoAppIterator
    /\ clk = NoReadings
    /\ ks = kernel_space(layout, PortalFrame(allocHigh))

\* the 64-bit build
Init == xlen = 64 /\ BootFrom(Candidates)

\* One turn of `for (i, elf) in AppMeta::locate().iter().enumerate()`:
\* ElfFile::new(..).unwrap() panics on bytes that do not parse; a process
\* that Process::new returns gets the kernel's top-level entry of the
\* portal and is pushed.
\* faulty variant: the process keeps the top-level entry it was built with
WithoutPortal(space, high) == space

WithPortal(space, high) ==
    [space EXCEPT !.pt = [v \in VPNs |->
        IF v \div TopSpan = PROTAL_TRANSIT \div TopSpan THEN ks.pt[v] ELSE @[v]]]

LoadApp ==
    /\ pc = "load"
    /\ appIdx < Len(apps)
    /\ LET elf == apps[appIdx + 1]
           r   == ProcessNew(elf, appIdx, free, mem, allocHigh)
       IN  IF ~elf.parses \/ r.tag = "panic"
           THEN /\ pc' = "panic"
                /\ UNCHANGED <<PROCESSES, free, mem>>
           ELSE IF r.tag = "Some"
           THEN /\ PROCESSES' = Append(PROCESSES,
                       [r.process EXCEPT !.address_space = WithPortal(@, allocHigh)])
                /\ free' = r.free
                /\ mem' = r.mem
                /\ pc' = pc
           ELSE UNCHANGED <<PROCESSES, free, mem, pc>>
    /\ appIdx' = appIdx + 1
    /\ UNCHANGED <<clk, appit, sbi, layout, ks, xlen, apps, allocHigh, satp, scause, console, LINE_START, calls, last>>

\* the iterator is exhausted: rust_main starts the scheduling thread
StartSchedule ==
    /\ pc = "load"
    /\ appIdx >= Len(apps)
    /\ pc' = "loop"
    /\ UNCHANGED <<clk, appit, sbi, layout, ks, xlen, apps, appIdx, PROCESSES, mem, free, allocHigh, satp, scause,
                   console, LINE_START, calls, last>>


\* ----------------------------------------------------------------- clock
\* values the hardware cycle counter (time::read64) is read at
Cycles == {12500}

\* The product c * 10000 is formed in u64.  It is evaluated here limb by
\* limb (c = hi * Limb + lo), which gives the same quotient exactly:
\* with hi * 10000 = q * 125 + r,
\*   (c * 10000) / 125 = q * Limb + (r * Limb + lo * 10000) / 125.
Limb == 2 ^ 14

monotonic_time_ns(c) ==
    LET hi == c \div Limb
        lo == c % Limb
        q  == (hi * 10000) \div 125
        r  == (hi * 10000) % 125
    IN  q * Limb + (r * Limb + lo * 10000) \div 125
monotonic_time_ms(c) == monotonic_time_ns(c) \div 1000000

\* ------------------------------------------------------------- console
\* The console is a sequence of bytes; the text "[{ts_ms:>5} ms] " that
\* print_with_timestamp puts in front of a line is one negative item.
Stamp(ms)  == 0 - (ms + 1)
IsStamp(x) == x < 0

\* str::split_inclusive('\n'): the segments of s, each ending with its NL
RECURSIVE split_inclusive(_)
split_inclusive(s) ==
    IF s = <<>> THEN <<>>
    ELSE IF \E i \in 1..Len(s) : s[i] = NL
    THEN LET k == CHOOSE i \in 1..Len(s) : s[i] = NL /\ \A j \in 1..(i - 1) : s[j] # NL
         IN  <<SubSeq(s, 1, k)>> \o split_inclusive(SubSeq(s, k + 1, Len(s)))
    ELSE <<s>>

ends_with_NL(segment) == Len(segment) > 0 /\ segment[Len(segment)] = NL

\* the body of `for segment in s.split_inclusive('\n')`, from segment k on
RECURSIVE PrintSegments(_, _, _, _, _)
PrintSegments(segs, k, at_line_start, out, c) ==
    IF k > Len(segs) THEN [out |-> out, at_line_start |-> at_line_start]
    ELSE PrintSegments(segs, k + 1, ends_with_NL(segs[k]),
             (IF at_line_start THEN Append(out, Stamp(monotonic_time_ms(c))) ELSE out)
                 \o segs[k],
             c)

\* faulty variant: LINE_START is not loaded: every call starts with a stamp
print_stamp_every_call(s, con, line, c) ==
    PrintSegments(split_inclusive(s), 1, TRUE, con, c)

\* print_with_timestamp(s): [out, at_line_start] from the console so far
\* and the loaded LINE_START
print_with_timestamp(s, con, line, c) ==
    PrintSegments(split_inclusive(s), 1, line, con, c)

\* --------------------------------------------------------------- syscalls
\* The pool is the top of the kernel heap that kernel_space maps: a kernel
\* access above its last cell is a page fault of the scheduling thread.
InPool(ptr, count) == ptr + count - 1 \in Cells \/ count = 0

\* core::slice::from_raw_parts(ptr, count): the cells of the slice that lie
\* in mapped memory
from_raw_parts(m, ptr, count) ==
    [i \in 1..(IF InPool(ptr, count) THEN count ELSE NFrames * PageSize - ptr) |-> m[ptr + i - 1]]

\* the segments that are complete before the slice leaves mapped memory
RECURSIVE CompleteSegments(_)
CompleteSegments(segs) ==
    IF segs = <<>> THEN <<>>
    ELSE IF ends_with_NL(segs[1]) THEN <<segs[1]>> \o CompleteSegments(Tail(segs))
    ELSE <<>>

\* Caller { entity: 0, flow: 0 }
CallerEntity == 0

\* faulty variant: the most recently loaded process answers
CallerProcessLast(procs, entity) == procs[Len(procs)]

\* the process PROCESSES.get(caller.entity) answers
CallerProcess(procs, entity) == procs[entity + 1]

\* IO::write: [tag, ret, console, line], tag Done or Fault
write(procs, entity, fd, buf, count, m, con, line, c) ==
    LET ptr     == translate(CallerProcess(procs, entity).address_space, buf, READABLE)
        slice   == from_raw_parts(m, ptr, count)
        printed == print_with_timestamp(slice, con, line, c)
        partial == PrintSegments(CompleteSegments(split_inclusive(slice)), 1, line, con, c)
        failed  == [tag |-> "Done", ret |-> -1, console |-> con, line |-> line]
    IN  IF fd \in {STDOUT, STDDEBUG}
        THEN IF ptr # None
             THEN IF InPool(ptr, count)
                  THEN [tag |-> "Done", ret |-> count,
                        console |-> printed.out, line |-> printed.at_line_start]
                  ELSE [tag |-> "Fault", ret |-> 0, console |-> partial.out, line |-> line]
             ELSE failed
        ELSE failed

\* size_of::<TimeSpec>() in cells: tv_sec, then tv_nsec
TimeSpecLen == 2

\* faulty variant: the clock id is not looked at
clock_gettime_any_clock(procs, entity, clock_id, tp, m, c) ==
    LET ptr  == translate(CallerProcess(procs, entity).address_space, tp, WRITABLE)
        time == monotonic_time_ns(c)
        spec == <<time \div 1000000000, time % 1000000000>>
        wrote == [a \in Cells |-> IF a \in ptr..(ptr + TimeSpecLen - 1)
                                  THEN spec[a - ptr + 1] ELSE m[a]]
    IN  IF ptr # None
        THEN [tag |-> IF InPool(ptr, TimeSpecLen) THEN "Done" ELSE "Fault",
              ret |-> 0, mem |-> wrote]
        ELSE [tag |-> "Done", ret |-> -1, mem |-> m]

\* Clock::clock_gettime: [tag, ret, mem]
clock_gettime(procs, entity, clock_id, tp, m, c) ==
    LET ptr  == translate(CallerProcess(procs, entity).address_space, tp, WRITABLE)
        time == monotonic_time_ns(c)
        spec == <<time \div 1000000000, time % 1000000000>>
        wrote == [a \in Cells |-> IF a \in ptr..(ptr + TimeSpecLen - 1)
                                  THEN spec[a - ptr + 1] ELSE m[a]]
    IN  IF clock_id = CLOCK_MONOTONIC
        THEN IF ptr # None
             THEN [tag |-> IF InPool(ptr, TimeSpecLen) THEN "Done" ELSE "Fault",
                   ret |-> 0, mem |-> wrote]
             ELSE [tag |-> "Done", ret |-> -1, mem |-> m]
        ELSE [tag |-> "Done", ret |-> -1, mem |-> m]

\* syscall::handle(caller, id, args): which implementation the id reaches.
\* [tag, ret, console, line, mem], tag Done, Unsupported or Fault
handle(procs, entity, id, a0, a1, a2, m, con, line, c) ==
    LET same == [tag |-> "Done", ret |-> 0, console |-> con, line |-> line, mem |-> m]
        w    == write(procs, entity, a0, a1, a2, m, con, line, c)
        t    == clock_gettime(procs, entity, a0, a1, m, c)
    IN  IF id = WRITE
        THEN [same EXCEPT !.tag = w.tag, !.ret = w.ret, !.console = w.console,
                          !.line = w.line]
        ELSE IF id = EXIT THEN same
        ELSE IF id = SCHED_YIELD THEN same
        ELSE IF id = CLOCK_GETTIME
        THEN [same EXCEPT !.tag = t.tag, !.ret = t.ret, !.mem = t.mem]
        ELSE [same EXCEPT !.tag = "Unsupported"]

\* -------------------------------------------------------------- scheduler
HeadProc == PROCESSES[1]

\* faulty variant: the most recently loaded process is run
ExecuteLast ==
    /\ pc = "loop"
    /\ PROCESSES # <<>>
    /\ pc' = "user"
    /\ satp' = PROCESSES[Len(PROCESSES)].satp
    /\ UNCHANGED <<clk, appit, sbi, layout, ks, xlen, apps, appIdx, PROCESSES, mem, free, allocHigh, scause,
                   console, LINE_START, calls, last>>

\* faulty variant: the head is entered with the kernel's root still active
ExecuteKeepsRoot ==
    /\ pc = "loop"
    /\ PROCESSES # <<>>
    /\ pc' = "user"
    /\ UNCHANGED <<clk, appit, sbi, layout, ks, xlen, apps, appIdx, PROCESSES, mem, free, allocHigh, satp,
                   scause, console, LINE_START, calls, last>>

\* `while !PROCESSES.is_empty()` found a process: ctx.execute(portal, ())
\* crosses into the head's address space
Execute ==
    /\ pc = "loop"
    /\ PROCESSES # <<>>
    /\ pc' = "user"
    /\ satp' = HeadProc.satp
    /\ UNCHANGED <<clk, appit, sbi, layout, ks, xlen, apps, appIdx, PROCESSES, mem, free, allocHigh, scause,
                   console, LINE_START, calls, last>>

\* What a user program can leave in a7, a0, a1, a2 when it executes ecall
\* (pointers: a cell of every kind of page, and the last cell before every
\* change of mapping)
UserPtrs == {0, 1, 6, 7, 15}
SyscallRegs ==
    {[a7 |-> EXIT, a0 |-> 0, a1 |-> 0, a2 |-> 0],
     [a7 |-> SCHED_YIELD, a0 |-> 0, a1 |-> 0, a2 |-> 0],
     [a7 |-> READ, a0 |-> STDIN, a1 |-> 0, a2 |-> 0],
     [a7 |-> WRITE, a0 |-> STDIN, a1 |-> 0, a2 |-> 1],
     [a7 |-> WRITE, a0 |-> STDDEBUG, a1 |-> 6, a2 |-> 1],
     [a7 |-> WRITE, a0 |-> STDOUT, a1 |-> 0, a2 |-> 0],
     [a7 |-> CLOCK_GETTIME, a0 |-> CLOCK_REALTIME, a1 |-> 6, a2 |-> 0]}
    \cup {[a7 |-> WRITE, a0 |-> STDOUT, a1 |-> buf, a2 |-> count] :
            buf \in UserPtrs, count \in 1..MaxCount}
    \cup {[a7 |-> CLOCK_GETTIME, a0 |-> CLOCK_MONOTONIC, a1 |-> tp, a2 |-> 0] :
            tp \in UserPtrs \ {1}}

Handled == {WRITE, SCHED_YIELD, CLOCK_GETTIME}

\* The foreign context traps: the portal restores the kernel's root and the
\* trapped registers and cause are left for the scheduler.
TrapOf(causes, regs) ==
    /\ pc = "user"
    /\ \E cause \in causes :
       \E r \in regs :
       \E step \in {0} :
          /\ cause # "UserEnvCall" =>
                r = [a7 |-> HeadProc.context.a7, a0 |-> HeadProc.context.a0,
                     a1 |-> HeadProc.context.a1, a2 |-> HeadProc.context.a2]
          /\ (cause = "UserEnvCall" /\ r.a7 \in Handled) => calls < MaxCalls
          /\ calls' = IF cause = "UserEnvCall" /\ r.a7 \in Handled THEN calls + 1 ELSE calls
          /\ scause' = cause
          /\ PROCESSES' = [PROCESSES EXCEPT ![1].context =
                [@ EXCEPT !.pc = @ + step, !.a0 = r.a0, !.a1 = r.a1, !.a2 = r.a2, !.a7 = r.a7]]
    /\ pc' = "trap"
    /\ satp' = KernelSatp
    /\ UNCHANGED <<clk, appit, sbi, layout, ks, xlen, apps, appIdx, mem, free, allocHigh, console, LINE_START, last>>

Trap == TrapOf({"UserEnvCall", "IllegalInstruction", "StoreFault"}, SyscallRegs)

\* LocalContext::move_next: step over the ecall instruction
move_next(ctx) == [ctx EXCEPT !.pc = @ + 4]

\* faulty variant: Vec::pop instead of Vec::remove(0)
RemoveLast(procs) == SubSeq(procs, 1, Len(procs) - 1)

\* Vec::remove(0)
RemoveHead(procs) == Tail(procs)

\* the registers the scheduler decodes from the trapped context
Decoded(c) ==
    handle(PROCESSES, CallerEntity, HeadProc.context.a7, HeadProc.context.a0,
           HeadProc.context.a1, HeadProc.context.a2, mem, console, LINE_START, c)

Record(op, ret) ==
    [op |-> op, pid |-> HeadProc.id, a0 |-> HeadProc.context.a0, ret |-> ret,
     from |-> Len(console), time |-> 0]

\* Ret::Done(_) with Id::EXIT
SyscallExit ==
    /\ pc = "trap" /\ scause = "UserEnvCall"
    /\ HeadProc.context.a7 = EXIT
    /\ \E c \in Cycles :
          /\ Decoded(c).tag = "Done"
          /\ PROCESSES' = RemoveHead(PROCESSES)
          /\ mem' = Decoded(c).mem
          /\ console' = Decoded(c).console
          /\ LINE_START' = Decoded(c).line
          /\ last' = Record("exit", Decoded(c).ret)
    /\ pc' = "loop"
    /\ UNCHANGED <<clk, appit, sbi, layout, ks, xlen, apps, appIdx, free, allocHigh, satp, scause, calls>>

\* faulty variant: a0 is written but the saved pc stays on the ecall
SyscallDoneNoAdvance ==
    /\ pc = "trap" /\ scause = "UserEnvCall"
    /\ HeadProc.context.a7 # EXIT
    /\ \E c \in Cycles :
          /\ Decoded(c).tag = "Done"
          /\ PROCESSES' = [PROCESSES EXCEPT ![1].context.a0 = Decoded(c).ret]
          /\ mem' = Decoded(c).mem
          /\ console' = Decoded(c).console
          /\ LINE_START' = Decoded(c).line
          /\ last' = [Record("done", Decoded(c).ret) EXCEPT !.time = c]
    /\ pc' = "loop"
    /\ UNCHANGED <<clk, appit, sbi, layout, ks, xlen, apps, appIdx, free, allocHigh, satp, scause, calls>>

\* Ret::Done(ret) with any other id, the cycle counter being read in `cycles`
SyscallDoneAt(cycles) ==
    /\ pc = "trap" /\ scause = "UserEnvCall"
    /\ HeadProc.context.a7 # EXIT
    /\ \E c \in cycles :
          /\ Decoded(c).tag = "Done"
          /\ PROCESSES' = [PROCESSES EXCEPT ![1].context =
                               move_next([@ EXCEPT !.a0 = Decoded(c).ret])]
          /\ mem' = Decoded(c).mem
          /\ console' = Decoded(c).console
          /\ LINE_START' = Decoded(c).line
          /\ last' = [Record("done", Decoded(c).ret) EXCEPT !.time = c]
    /\ pc' = "loop"
    /\ UNCHANGED <<clk, appit, sbi, layout, ks, xlen, apps, appIdx, free, allocHigh, satp, scause, calls>>

SyscallDone == SyscallDoneAt(Cycles)

\* faulty variant: an unsupported id is answered with -1 and the process goes on
SyscallUnsupportedReturns ==
    /\ pc = "trap" /\ scause = "UserEnvCall"
    /\ \E c \in Cycles :
          /\ Decoded(c).tag = "Unsupported"
          /\ PROCESSES' = [PROCESSES EXCEPT ![1].context = move_next([@ EXCEPT !.a0 = -1])]
          /\ last' = Record("unsupported", -1)
    /\ pc' = "loop"
    /\ UNCHANGED <<clk, appit, sbi, layout, ks, xlen, apps, appIdx, mem, free, allocHigh, satp, scause, console,
                   LINE_START, calls>>

\* Ret::Unsupported(_)
SyscallUnsupported ==
    /\ pc = "trap" /\ scause = "UserEnvCall"
    /\ \E c \in Cycles :
          /\ Decoded(c).tag = "Unsupported"
          /\ PROCESSES' = RemoveHead(PROCESSES)
          /\ mem' = Decoded(c).mem
          /\ console' = Decoded(c).console
          /\ LINE_START' = Decoded(c).line
          /\ last' = Record("unsupported", 0)
    /\ pc' = "loop"
    /\ UNCHANGED <<clk, appit, sbi, layout, ks, xlen, apps, appIdx, free, allocHigh, satp, scause, calls>>

\* faulty variant: the faulting process is put back at the end of the queue
OtherTrapRequeue ==
    /\ pc = "trap" /\ scause # "UserEnvCall"
    /\ PROCESSES' = Append(Tail(PROCESSES), HeadProc)
    /\ last' = Record("trap", 0)
    /\ pc' = "loop"
    /\ UNCHANGED <<clk, appit, sbi, layout, ks, xlen, apps, appIdx, mem, free, allocHigh, satp, scause, console,
                   LINE_START, calls>>

\* any other trap cause
OtherTrap ==
    /\ pc = "trap" /\ scause # "UserEnvCall"
    /\ PROCESSES' = RemoveHead(PROCESSES)
    /\ last' = Record("trap", 0)
    /\ pc' = "loop"
    /\ UNCHANGED <<clk, appit, sbi, layout, ks, xlen, apps, appIdx, mem, free, allocHigh, satp, scause, console,
                   LINE_START, calls>>

\* the handler touched unmapped memory: the scheduling thread traps back
\* into rust_main, which panics
KernelFault ==
    /\ pc = "trap" /\ scause = "UserEnvCall"
    /\ \E c \in Cycles :
          /\ Decoded(c).tag = "Fault"
          /\ mem' = Decoded(c).mem
          /\ console' = Decoded(c).console
    /\ pc' = "panic"
    /\ UNCHANGED <<clk, appit, sbi, layout, ks, xlen, apps, appIdx, PROCESSES, free, allocHigh, satp, scause,
                   LINE_START, calls, last>>

\* faulty variant: the loop is left while one process is still queued
ResetWhenOneLeft ==
    /\ pc = "loop"
    /\ Len(PROCESSES) <= 1
    /\ pc' = "reset"
    /\ UNCHANGED <<clk, appit, sbi, layout, ks, xlen, apps, appIdx, PROCESSES, mem, free, allocHigh, satp, scause,
                   console, LINE_START, calls, last>>

\* the queue is empty: system_reset(Shutdown, NoReason)
Reset ==
    /\ pc = "loop"
    /\ PROCESSES = <<>>
    /\ pc' = "reset"
    /\ UNCHANGED <<clk, appit, sbi, layout, ks, xlen, apps, appIdx, PROCESSES, mem, free, allocHigh, satp, scause,
                   console, LINE_START, calls, last>>

Next ==
    \/ LoadApp
    \/ StartSchedule
    \/ Execute
    \/ Trap
    \/ SyscallExit
    \/ SyscallDone
    \/ SyscallUnsupported
    \/ OtherTrap
    \/ KernelFault
    \/ Reset

Spec == Init /\ [][Next]_vars

\* the steps of schedule(), from the test of the queue to the system reset
schedule ==
    \/ Execute
    \/ Trap
    \/ SyscallExit
    \/ SyscallDone
    \/ SyscallUnsupported
    \/ OtherTrap
    \/ KernelFault
    \/ Reset

\* The scheduling thread is one sequential thread on one hart: whichever
\* step of schedule() is due is eventually taken, and every crossing into
\* a process eventually traps.  MaxCalls keeps the handled syscalls other
\* than EXIT finite.
SpecLive == Init /\ [][Next]_vars /\ WF_vars(schedule)

\* ------------------------------------------------- loading, in detail
\* Either build, the table drawn from images of every kind; the programs
\* yield, exit, call an unsupported id, execute an illegal instruction, or
\* print from and read the clock into their stack.
Images ==
    {ImgA, ImgB, ImgShared, ImgX86, ImgClass32, ImgB32, ImgGarbage, ImgMisaligned,
     ImgHigh}
LoadRegs ==
    {[a7 |-> EXIT, a0 |-> 0, a1 |-> 0, a2 |-> 0],
     [a7 |-> SCHED_YIELD, a0 |-> 0, a1 |-> 0, a2 |-> 0],
     [a7 |-> READ, a0 |-> STDIN, a1 |-> 0, a2 |-> 0],
     [a7 |-> WRITE, a0 |-> STDOUT, a1 |-> 6, a2 |-> 1],
     [a7 |-> CLOCK_GETTIME, a0 |-> CLOCK_MONOTONIC, a1 |-> 6, a2 |-> 0]}

InitLoad == xlen \in {64, 32} /\ BootFrom(Images)

TrapLoad == TrapOf({"UserEnvCall", "IllegalInstruction"}, LoadRegs)

NextLoad ==
    \/ LoadApp
    \/ StartSchedule
    \/ Execute
    \/ TrapLoad
    \/ SyscallExit
    \/ SyscallDone
    \/ SyscallUnsupported
    \/ OtherTrap
    \/ Reset

SpecLoad == InitLoad /\ [][NextLoad]_vars

\* ------------------------------------------------ kernel_space, alone
\* The kernel's space is built for an image of three adjoining regions that
\* starts on a page boundary, with region boundaries anywhere, a heap of
\* one or two cells behind it and the portal in one of two frames.
Layouts ==
    {[start   |-> start,
      end     |-> start + t + r + d,
      memory  |-> t + r + d + h,
      regions |-> << Region("Text", start, start + t),
                     Region("Rodata", start + t, start + t + r),
                     Region(title, start + t + r, start + t + r + d) >>] :
       start \in {0, PageSize}, t \in 1..MaxRegionLen, r \in 1..MaxRegionLen,
       d \in 1..MaxRegionLen, h \in 1..2, title \in {"Data", "Boot"}}

InitKernel ==
    /\ pc = "boot"
    /\ layout \in Layouts
    /\ allocHigh \in BOOLEAN
    /\ ks = NewSpace(KernelRoot)
    /\ xlen = 64
    /\ apps = <<>>
    /\ appIdx = 0
    /\ PROCESSES = <<>>
    /\ free = Frames
    /\ mem = [c \in Cells |-> 0]
    /\ satp = <<0, 0>>
    /\ scause = "none"
    /\ console = <<>>
    /\ LINE_START = TRUE
    /\ calls = 0
    /\ last = NoLast
    /\ sbi = SbiIdle
    /\ appit = NoAppIterator
    /\ clk = NoReadings

\* rust_main: the portal page is allocated, kernel_space builds the space
\* and installs its root
BuildKernelSpace ==
    /\ pc = "boot"
    /\ free' = Take(free, PortalFrame(allocHigh), 1)
    /\ ks' = kernel_space(layout, PortalFrame(allocHigh))
    /\ satp' = KernelSatp
    /\ pc' = "built"
    /\ UNCHANGED <<clk, appit, sbi, layout, xlen, apps, appIdx, PROCESSES, mem, allocHigh, scause,
                   console, LINE_START, calls, last>>

NextKernel == BuildKernelSpace

SpecKernel == InitKernel /\ [][NextKernel]_vars

\* ------------------------------------------------- the clock, in detail
\* One program (ImgA) that only asks for the time, the cycle counter being
\* read below, at and above whole seconds.
ClockCycles == {0, 1, 12500, 12499999, 12500000, 12500013, 25000001, 26843545}
ClockPtrs   == {0, 3, 6, 7, 15}
ClockRegs   ==
    {[a7 |-> CLOCK_GETTIME, a0 |-> CLOCK_MONOTONIC, a1 |-> tp, a2 |-> 0] : tp \in ClockPtrs}

InitClock == Init /\ apps = <<ImgA>>

TrapClock        == TrapOf({"UserEnvCall"}, ClockRegs)
SyscallDoneClock == SyscallDoneAt(ClockCycles)

NextClock ==
    \/ LoadApp
    \/ StartSchedule
    \/ Execute
    \/ TrapClock
    \/ SyscallDoneClock
    \/ KernelFault

SpecClock == InitClock /\ [][NextClock]_vars

\* ----------------------------------------------------- the monitor, alone
\* The registers a trap can carry: zero, a word whose low byte and whose
\* upper half are both set, and all ones.
SbiWords == {Word(0), IF xlen = 64 THEN <<321, 0, 7, 0>> ELSE <<321, 7>>, usize_MAX}

\* the six extensions of mod eid and one the monitor does not know
SbiEids == {LEGACY_CONSOLE_PUTCHAR, LEGACY_CONSOLE_GETCHAR, LEGACY_SHUTDOWN, BASE, TIMER,
            SRST, 3}

SbiFids(eid) == IF eid = BASE THEN 0..7 ELSE {0, 3, 7}

\* environment call from S-mode, from U-mode, illegal instruction
SbiCauses == {EnvCallFromS, 8, 2}

InitSbi ==
    /\ xlen \in {64, 32}
    /\ sbi \in {[SbiIdle EXCEPT !.stip = b] : b \in BOOLEAN}
    /\ pc = "boot"
    /\ layout = NoLayout
    /\ allocHigh = FALSE
    /\ ks = NewSpace(KernelRoot)
    /\ apps = <<>>
    /\ appIdx = 0
    /\ PROCESSES = <<>>
    /\ free = Frames
    /\ mem = [c \in Cells |-> 0]
    /\ satp = <<0, 0>>
    /\ scause = "none"
    /\ console = <<>>
    /\ LINE_START = TRUE
    /\ calls = 0
    /\ last = NoLast
    /\ appit = NoAppIterator
    /\ clk = NoReadings

MTrap ==
    \E mcause \in SbiCauses, eid \in SbiEids, a0 \in SbiWords, a1 \in SbiWords,
       a2 \in {Word(0), usize_MAX} :
        \E fid \in SbiFids(eid) : m_trap_handler(mcause, a0, a1, a2, fid, eid)

NextSbi == MTrap \/ PutcharReady \/ MRet \/ UartTransmits \/ UartReceives

SpecSbi == InitSbi /\ [][NextSbi]_vars

\* The hart keeps executing: a putchar that waits in `while !is_tx_ready()
\* {}` reads LSR again and again, and leaves the loop once the bit is set.
SpecSbiLive == InitSbi /\ [][NextSbi]_vars /\ WF_vars(PutcharReady)

\* ------------------------------------------------- the monitor's probe
\* Traps from S-mode whose a0 is an extension id, as the probe function of
\* the base extension takes it.
MTrapProbe ==
    \E eid \in SbiEids, e \in SbiEids :
        \E fid \in SbiFids(eid) :
            m_trap_handler(EnvCallFromS, Word(e), Word(0), Word(0), fid, eid)

NextProbe == MTrapProbe \/ PutcharReady \/ MRet \/ UartTransmits

SpecProbe == InitSbi /\ [][NextProbe]_vars


\* ------------------------------------------------- AppIterator, alone
\* how often next is called once it has answered None
MoreCalls == 2

InitApps ==
    /\ appit \in {AppIter(meta) : meta \in AppMetas}
    /\ clk = NoReadings
    /\ xlen \in {64, 32}
    /\ sbi = SbiIdle
    /\ pc = "boot"
    /\ layout = NoLayout
    /\ allocHigh = FALSE
    /\ ks = NewSpace(KernelRoot)
    /\ apps = <<>>
    /\ appIdx = 0
    /\ PROCESSES = <<>>
    /\ free = Frames
    /\ mem = [c \in Cells |-> 0]
    /\ satp = <<0, 0>>
    /\ scause = "none"
    /\ console = <<>>
    /\ LINE_START = TRUE
    /\ calls = 0
    /\ last = NoLast

\* one call of next
AppNext ==
    /\ appit.st = "ok"
    /\ Len(appit.out) < appit.meta.count + MoreCalls
    /\ appit' = next(appit)
    /\ UNCHANGED <<clk, sbi, layout, ks, xlen, pc, apps, appIdx, PROCESSES, mem, free,
                   allocHigh, satp, scause, console, LINE_START, calls, last>>

NextApps == AppNext

SpecApps == InitApps /\ [][NextApps]_vars

\* ------------------------------------------------- the clock, two readings
\* Counter values: 0, 1, one and two seconds' worth, the last value whose
\* time fits and the first whose time does not (on the 64-bit build
\* 1844674407370955 and 1844674407370956, on the 32-bit build 53687091 and
\* 53687092), the top bit alone, and all ones.
Counters ==
    IF xlen = 64
    THEN {<<0, 0, 0, 0>>, <<1, 0, 0, 0>>, <<48160, 190, 0, 0>>, <<30784, 381, 0, 0>>,
          <<4299, 47815, 36280, 6>>, <<4300, 47815, 36280, 6>>, <<0, 0, 0, 32768>>,
          <<65535, 65535, 65535, 65535>>}
    ELSE {<<0, 0>>, <<1, 0>>, <<48160, 190>>, <<30784, 381>>, <<13107, 819>>, <<13108, 819>>,
          <<0, 32768>>, <<65535, 65535>>}

\* two values of the counter, the later not below the earlier; checks: the
\* build has overflow checks (a debug profile)
InitReadings ==
    /\ xlen \in {64, 32}
    /\ \E c1 \in Counters, c2 \in Counters, checks \in BOOLEAN :
          /\ Leq(c1, c2)
          /\ clk = [NoReadings EXCEPT !.c = <<c1, c2>>, !.checks = checks]
    /\ sbi = SbiIdle
    /\ appit = NoAppIterator
    /\ pc = "boot"
    /\ layout = NoLayout
    /\ allocHigh = FALSE
    /\ ks = NewSpace(KernelRoot)
    /\ apps = <<>>
    /\ appIdx = 0
    /\ PROCESSES = <<>>
    /\ free = Frames
    /\ mem = [c \in Cells |-> 0]
    /\ satp = <<0, 0>>
    /\ scause = "none"
    /\ console = <<>>
    /\ LINE_START = TRUE
    /\ calls = 0
    /\ last = NoLast

\* monotonic_time_ns and monotonic_time_ms at both values; with overflow
\* checks a product that does not fit panics
ReadClock ==
    /\ clk.st = "idle"
    /\ clk' = IF clk.checks /\ \E k \in 1..2 : mul_overflows(as_u64(clk.c[k]), 10000)
              THEN [clk EXCEPT !.st = "panic"]
              ELSE [clk EXCEPT !.st = "read",
                               !.ns = <<time_ns(clk.c[1]), time_ns(clk.c[2])>>,
                               !.ms = <<time_ms(clk.c[1]), time_ms(clk.c[2])>>]
    /\ UNCHANGED <<appit, sbi, layout, ks, xlen, pc, apps, appIdx, PROCESSES, mem, free,
                   allocHigh, satp, scause, console, LINE_START, calls, last>>

NextReadings == ReadClock

SpecReadings == InitReadings /\ [][NextReadings]_vars

\* ================================================================ claims
\* vocabulary of the claims
Ecall(ids)   == pc = "trap" /\ scause = "UserEnvCall" /\ HeadProc.context.a7 \in ids
QueueIds     == [i \in 1..Len(PROCESSES) |-> PROCESSES[i].id]
ValidElf(e)  == e.parses /\ e.type = "Executable" /\ e.machine = "RISC_V"
                  /\ e.class = (IF xlen = 64 THEN "Header64" ELSE "Header32")
LoadedIds    == SelectSeq([i \in 1..Len(apps) |-> i - 1],
                          LAMBDA id : ValidElf(apps[id + 1]))
IsSuffix(q, p) == \E k \in 0..Len(p) : q = SubSeq(p, k + 1, Len(p))
Scheduling   == pc \in {"loop", "user", "trap", "reset"}
Removed      == last.op \in {"exit", "unsupported", "trap"}

\* C1: when the head traps with the EXIT syscall, the queue afterwards is
\* the old queue without its first element: one shorter, the others in
\* their order with their contexts untouched (no a0 is written anywhere).
C1_ExitRemovesHead ==
    [][Ecall({EXIT}) =>
          /\ Len(PROCESSES') = Len(PROCESSES) - 1
          /\ \A i \in 1..Len(PROCESSES') : PROCESSES'[i] = PROCESSES[i + 1]]_vars

C1_Witness == pc = "loop" /\ last.op = "exit" /\ Len(PROCESSES) >= 1

\* C2: when the head traps with an unsupported syscall id or with a cause
\* other than a user environment call, exactly the head is removed, at
\* once, and the other processes, their order and all memory stay as
\* they are.
C2_UnsupportedOrFaultRemovesOnlyHead ==
    [][(pc = "trap" /\ (scause # "UserEnvCall"
                          \/ HeadProc.context.a7 \notin {EXIT, WRITE, SCHED_YIELD, CLOCK_GETTIME}))
          => /\ PROCESSES' = Tail(PROCESSES)
             /\ mem' = mem
             /\ pc' = "loop"]_vars

C2_Witness ==
    pc = "loop" /\ last.op = "unsupported" /\ Len(PROCESSES) >= 1 /\ calls >= 1

\* C3: while the scheduler runs, the queue is a suffix of the queue built
\* at load time; every step leaves a suffix of the queue it found, with
\* every process but a staying head untouched; the process that executes
\* is the head of the queue, so a removed process never runs again.
C3_QueueIsSuffixOfLoaded ==
    /\ [](Scheduling => /\ IsSuffix(QueueIds, LoadedIds)
                        /\ (pc = "user" => PROCESSES # <<>> /\ satp = HeadProc.satp))
    /\ [][pc # "load" =>
            \E k \in 0..Len(PROCESSES) :
               /\ Len(PROCESSES') = Len(PROCESSES) - k
               /\ \A i \in 1..Len(PROCESSES') :
                     /\ PROCESSES'[i].id = PROCESSES[i + k].id
                     /\ (i + k > 1 => PROCESSES'[i] = PROCESSES[i + k])]_vars

C3_Witness ==
    pc = "user" /\ Removed /\ Len(QueueIds) < Len(LoadedIds) /\ PROCESSES # <<>>

\* C4: a handled syscall other than EXIT that returns leaves the queue as
\* it is, with the same head; the head's saved a0 is the returned value
\* (0 for SCHED_YIELD, count or -1 for WRITE, 0 or -1 for CLOCK_GETTIME),
\* its saved pc is 4 further, and nothing else of its context changes.
C4_HandledCallReturnsAndAdvances ==
    [][(Ecall({WRITE, SCHED_YIELD, CLOCK_GETTIME}) /\ pc' = "loop") =>
          LET old == PROCESSES[1].context
              new == PROCESSES'[1].context
          IN  /\ Len(PROCESSES') = Len(PROCESSES)
              /\ Tail(PROCESSES') = Tail(PROCESSES)
              /\ PROCESSES'[1] = [PROCESSES[1] EXCEPT !.context = new]
              /\ new = [old EXCEPT !.a0 = new.a0, !.pc = old.pc + 4]
              /\ new.a0 = last'.ret
              /\ (old.a7 = SCHED_YIELD => new.a0 = 0)
              /\ (old.a7 = WRITE => new.a0 \in {-1, old.a2})
              /\ (old.a7 = CLOCK_GETTIME => new.a0 \in {-1, 0})]_vars

C4_Witness ==
    /\ pc = "loop" /\ last.op = "done" /\ Len(PROCESSES) >= 2
    /\ HeadProc.context.a7 = SCHED_YIELD /\ HeadProc.context.a0 = 0

FirstRun == last.op = "none" \/ last.pid # HeadProc.id
AsLoaded(p) ==
    /\ p.context.pc = apps[p.id + 1].entry_point
    /\ p.context.a0 = 0 /\ p.context.a1 = 0 /\ p.context.a2 = 0 /\ p.context.a7 = 0
    /\ p.satp = <<VmModeBits, p.address_space.root>>

C6_ServicedInQueueOrder ==
    Scheduling =>
       /\ \A i \in 2..Len(PROCESSES) : AsLoaded(PROCESSES[i])
       /\ \A i \in 1..Len(PROCESSES) : \A j \in 1..Len(PROCESSES) :
             i < j => PROCESSES[i].id < PROCESSES[j].id
       /\ pc = "user" =>
             /\ PROCESSES # <<>>
             /\ satp = HeadProc.satp
             /\ satp = <<VmModeBits, HeadProc.address_space.root>>
             /\ \A i \in 2..Len(PROCESSES) : PROCESSES[i].satp # satp
             /\ IsSuffix(QueueIds, LoadedIds)
             /\ (FirstRun => AsLoaded(HeadProc))

C6_Witness ==
    /\ pc = "user" /\ Len(apps) = 2 /\ HeadProc.id = 1
    /\ last.op = "exit" /\ last.pid = 0
    /\ HeadProc.context.pc = apps[2].entry_point

\* C7: the pointer of WRITE and of CLOCK_GETTIME is translated through the
\* head's own address space: when the page of the pointer is not mapped
\* there with the required permission, the call returns -1 and neither
\* prints nor writes memory, whatever other processes map there.
Permitted(p, va, required) ==
    required \subseteq p.address_space.pt[va \div PageSize].flags
MappedInImage(elf, va) ==
    \E k \in 1..Len(elf.segs) :
       LET sg == elf.segs[k]
       IN  va \div PageSize \in
              Floor(sg.virtual_addr)..(Ceil(sg.virtual_addr + sg.mem_size) - 1)

C7_TranslatedThroughCaller ==
    [][(\/ Ecall({WRITE}) /\ HeadProc.context.a0 \in {STDOUT, STDDEBUG}
                          /\ ~Permitted(HeadProc, HeadProc.context.a1, READABLE)
        \/ Ecall({CLOCK_GETTIME}) /\ HeadProc.context.a0 = CLOCK_MONOTONIC
                          /\ ~Permitted(HeadProc, HeadProc.context.a1, WRITABLE))
          => /\ pc' = "loop"
             /\ PROCESSES'[1].id = HeadProc.id
             /\ PROCESSES'[1].context.a0 = -1
             /\ console' = console
             /\ mem' = mem]_vars

\* the second app asks for an address that only the first one, already
\* removed, had mapped
C7_Witness ==
    /\ pc = "loop" /\ last.op = "done" /\ last.ret = -1
    /\ Len(apps) = 2 /\ PROCESSES # <<>> /\ HeadProc.id = 1 /\ Len(PROCESSES) = 1
    /\ HeadProc.context.a7 = WRITE /\ last.a0 = STDOUT
    /\ MappedInImage(apps[1], HeadProc.context.a1)
    /\ ~MappedInImage(apps[2], HeadProc.context.a1)

\* C8: the four call-local errors (WRITE on an unsupported fd, WRITE from
\* an unreadable pointer, CLOCK_GETTIME on another clock, CLOCK_GETTIME to
\* an unwritable pointer) return -1 in a0, print nothing, write no
\* memory and leave the caller at the head with its pc advanced.
C8_CallLocalErrors ==
    [][(\/ Ecall({WRITE}) /\ HeadProc.context.a0 \notin {STDOUT, STDDEBUG}
        \/ Ecall({WRITE}) /\ ~Permitted(HeadProc, HeadProc.context.a1, READABLE)
        \/ Ecall({CLOCK_GETTIME}) /\ HeadProc.context.a0 # CLOCK_MONOTONIC
        \/ Ecall({CLOCK_GETTIME}) /\ ~Permitted(HeadProc, HeadProc.context.a1, WRITABLE))
          => /\ pc' = "loop"
             /\ Len(PROCESSES') = Len(PROCESSES)
             /\ PROCESSES'[1].id = HeadProc.id
             /\ PROCESSES'[1].context.a0 = -1
             /\ PROCESSES'[1].context.pc = HeadProc.context.pc + 4
             /\ console' = console
             /\ LINE_START' = LINE_START
             /\ mem' = mem]_vars

C8_Witness ==
    /\ pc = "loop" /\ last.op = "done" /\ last.ret = -1 /\ PROCESSES # <<>>
    /\ HeadProc.context.a7 = CLOCK_GETTIME /\ last.a0 = CLOCK_REALTIME
    /\ HeadProc.context.a0 = -1


\* C9: a WRITE on a supported fd whose whole buffer lies in pages the
\* caller owns and may read returns count and prints exactly the bytes of
\* the buffer, in order; stamps come only in front of a line (at the start
\* of the output when the console is at a line start, else right after a
\* newline).
Emitted       == SubSeq(console', Len(console) + 1, Len(console'))
BytesOf(out)  == SelectSeq(out, LAMBDA x : ~IsStamp(x))
VirtCell(p, va) ==
    mem[p.address_space.pt[va \div PageSize].ppn * PageSize + (va % PageSize)]
BufferOwned(p, buf, count) ==
    \A k \in 0..(IF count = 0 THEN 0 ELSE count - 1) :
       /\ (buf + k) \div PageSize \in VPNs
       /\ Permitted(p, buf + k, {"U", "R", "V"})
StampsLeadLines(out, line) ==
    \A i \in 1..Len(out) :
       IsStamp(out[i]) => IF i = 1 THEN line ELSE out[i - 1] = NL

C9_WritePrintsBuffer ==
    [][(/\ Ecall({WRITE}) /\ HeadProc.context.a0 \in {STDOUT, STDDEBUG}
        /\ BufferOwned(HeadProc, HeadProc.context.a1, HeadProc.context.a2))
          => /\ pc' = "loop"
             /\ PROCESSES'[1].context.a0 = HeadProc.context.a2
             /\ Len(console') >= Len(console)
             /\ SubSeq(console', 1, Len(console)) = console
             /\ BytesOf(Emitted) = [k \in 1..HeadProc.context.a2 |->
                                      VirtCell(HeadProc, HeadProc.context.a1 + k - 1)]
             /\ StampsLeadLines(Emitted, LINE_START)]_vars

\* C10: over all WRITE calls, of one process or of several, a stamp stands
\* exactly in front of the first byte of every line: in front of the first
\* byte ever printed and of every byte that follows a newline, and nowhere
\* else; LINE_START tells whether the next byte starts a line.
C10_StampsExactlyAtLineStarts ==
    /\ \A i \in 1..Len(console) :
          IF IsStamp(console[i])
          THEN /\ i = 1 \/ console[i - 1] = NL
               /\ i < Len(console) /\ ~IsStamp(console[i + 1])
          ELSE i > 1 /\ console[i - 1] # NL
    /\ pc # "panic" => (LINE_START <=> (console = <<>> \/ console[Len(console)] = NL))

\* the second process continues, without a stamp, the line the first left open
C10_Witness ==
    /\ pc = "loop" /\ last.op = "done" /\ last.pid = 1 /\ Len(apps) = 2
    /\ last.from >= 2 /\ Len(console) > last.from
    /\ ~IsStamp(console[last.from]) /\ console[last.from] # NL
    /\ ~IsStamp(console[last.from + 1])


\* C11: a CLOCK_GETTIME on the monotonic clock whose pointer translates
\* writable in the caller's space returns 0 to the caller, and the pair
\* {tv_sec, tv_nsec} it stored combines to the nanosecond time of the cycle
\* counter read during the dispatch (counter * 10000 / 125, i.e. 80 times
\* the counter), with 0 <= tv_nsec < 10^9.
ClockPtr == translate(HeadProc.address_space, HeadProc.context.a1, WRITABLE)

C11_ClockPairCombines ==
    [][(/\ Ecall({CLOCK_GETTIME}) /\ HeadProc.context.a0 = CLOCK_MONOTONIC
        /\ ClockPtr # None)
          => /\ pc' = "loop"
             /\ PROCESSES'[1].context.a0 = 0
             /\ mem'[ClockPtr] * 1000000000 + mem'[ClockPtr + 1] = 80 * last'.time
             /\ mem'[ClockPtr + 1] >= 0 /\ mem'[ClockPtr + 1] < 1000000000]_vars


\* C12: the process Process::new builds from a valid image starts at the
\* image's entry point, and its stack pointer is the end address of the
\* last of the two pages mapped as its user stack, on either build.
Pushed        == pc = "load" /\ Len(PROCESSES') = Len(PROCESSES) + 1
Newest        == PROCESSES'[Len(PROCESSES')]
StackPages(p) == {v \in VPNs : p.address_space.pt[v].flags = {"U", "W", "R", "V"}}

C12_EntryAndStackTop ==
    [][Pushed =>
         /\ ValidElf(apps[appIdx + 1])
         /\ Newest.context.pc = apps[appIdx + 1].entry_point
         /\ Cardinality(StackPages(Newest)) = 2
         /\ \E top \in StackPages(Newest) :
               /\ StackPages(Newest) = {top - 1, top}
               /\ Newest.context.sp = (top + 1) * PageSize]_vars

C12_Witness ==
    /\ xlen = 32 /\ Len(PROCESSES) = 2
    /\ PROCESSES[1].context.pc # PROCESSES[2].context.pc


\* C13: a candidate that parses but whose header is not an executable, not
\* for RISC-V or not of the class of the build yields no process: the load
\* loop goes on to the next candidate with the queue, memory and allocator
\* untouched and without a panic; when loading is over the queue holds
\* exactly the valid candidates, in table order.
BadHeader(e) == e.parses /\ ~ValidElf(e)

C13_BadHeaderIsSkipped ==
    /\ [][(pc = "load" /\ appIdx < Len(apps) /\ BadHeader(apps[appIdx + 1]))
            => /\ pc' = "load"
               /\ appIdx' = appIdx + 1
               /\ UNCHANGED <<PROCESSES, mem, free>>]_vars
    /\ [][(pc = "load" /\ pc' = "loop") => QueueIds' = LoadedIds]_vars

C13_Witness ==
    /\ pc = "loop" /\ Len(apps) = 2 /\ last.op = "none"
    /\ BadHeader(apps[1]) /\ ValidElf(apps[2]) /\ QueueIds = <<1>>


\* C14: a candidate that fails validation (its bytes do not parse, its
\* header is of the wrong type, machine or class, or a loadable segment has
\* a file offset and a virtual address that differ modulo the page size)
\* never becomes a process and costs nothing else: the load loop goes on
\* to the next candidate without a panic, so that the others are loaded
\* and scheduled.
Aligned(seg)  == seg.offset % PageSize = seg.virtual_addr % PageSize
Validates(e)  == ValidElf(e) /\ \A k \in 1..Len(e.segs) : Aligned(e.segs[k])

C14_ValidationFailureIsProcessFatal ==
    [][(pc = "load" /\ appIdx < Len(apps) /\ ~Validates(apps[appIdx + 1]))
         => /\ pc' = "load"
            /\ appIdx' = appIdx + 1
            /\ PROCESSES' = PROCESSES]_vars


\* C15: every queued process carries, as the token saved with its context,
\* the mode bits of the build (Sv39: 8, Sv32: 1, in the MODE field) with
\* the root page of its own address space; the token of a process that
\* stays queued never changes, whatever is handled or removed, and no two
\* queued processes have the same token.
OwnToken(p) ==
    p.satp = <<IF xlen = 64 THEN VmModeBits ELSE Sv32ModeBits, p.address_space.root>>

C15_TokenIsOwnRoot ==
    /\ [](\A i \in 1..Len(PROCESSES) :
            /\ OwnToken(PROCESSES[i])
            /\ PROCESSES[i].satp # KernelSatp
            /\ \A j \in 1..Len(PROCESSES) :
                  i # j => PROCESSES[i].satp # PROCESSES[j].satp)
    /\ [][\A i \in 1..Len(PROCESSES) : \A j \in 1..Len(PROCESSES') :
             PROCESSES[i].id = PROCESSES'[j].id =>
                /\ PROCESSES'[j].satp = PROCESSES[i].satp
                /\ PROCESSES'[j].address_space.root = PROCESSES[i].address_space.root]_vars

\* on the 32-bit build, the second process is still queued, untouched,
\* after the first was served a call and then removed
C15_Witness ==
    /\ xlen = 32 /\ Len(apps) = 2 /\ calls > 0
    /\ pc = "loop" /\ Removed /\ last.pid = 0
    /\ Len(PROCESSES) = 1 /\ PROCESSES[1].id = 1


\* C17: once kernel_space has mapped the regions of the image and the heap
\* behind it, every address of every region, and every address of the heap
\* up to start + memory, translates to itself (the delta between virtual
\* and physical is 0 for every region); the heap is readable and writable.
C17_KernelRegionsIdentity ==
    pc = "built" =>
       /\ \A k \in 1..Len(layout.regions) :
             \A addr \in layout.regions[k].lo .. (layout.regions[k].hi - 1) :
                translate(ks, addr, {"V"}) = addr
       /\ \A addr \in layout.end .. (layout.start + layout.memory - 1) :
             translate(ks, addr, {"W", "R", "V"}) = addr

\* an image that starts above page 0 and whose regions share pages
C17_Witness ==
    /\ pc = "built" /\ layout.start > 0 /\ Len(layout.regions) = 3
    /\ layout.regions[1].hi % PageSize # 0
    /\ layout.end % PageSize # 0
    /\ layout.start + layout.memory > layout.end + 1


\* C16: in the kernel's space and in the space of every queued process the
\* portal's page (the highest page number) maps to the one portal frame
\* with the flags G, X, W, R, V, the whole top-level entry that holds it
\* being the kernel's; nothing else is mapped under that entry: no page of
\* a segment and no stack page, also for an image with a segment up there.
PortalSpan == {v \in VPNs : v \div TopSpan = PROTAL_TRANSIT \div TopSpan}
SegmentUnderPortal(e) ==
    \E k \in 1..Len(e.segs) : (e.segs[k].virtual_addr \div PageSize) \in PortalSpan

C16_PortalSlotSharedAndReserved ==
    LET portal == ks.pt[PROTAL_TRANSIT]
    IN  /\ PROTAL_TRANSIT = MaxVpn
        /\ portal.flags = {"G", "X", "W", "R", "V"}
        /\ portal.ppn \in Frames \ free
        /\ pc = "load" /\ appIdx = 0 => portal.ppn = PortalFrame(allocHigh)
        /\ \A i \in 1..Len(PROCESSES) :
              /\ \A v \in PortalSpan :
                    /\ PROCESSES[i].address_space.pt[v] = ks.pt[v]
                    /\ v # PROTAL_TRANSIT => PROCESSES[i].address_space.pt[v] = NoPte
              /\ \A v \in VPNs \ {PROTAL_TRANSIT} :
                    PROCESSES[i].address_space.pt[v].ppn # portal.ppn

C16_Witness ==
    /\ pc = "loop" /\ Len(PROCESSES) = 2 /\ last.op = "done"
    /\ \E i \in 1..2 : SegmentUnderPortal(apps[PROCESSES[i].id + 1])


\* C18: one crossing at a time.  A crossing is started only by the
\* scheduler at the top of its loop, where none is in flight; while the
\* process runs the active root is the head's token; the crossing ends in
\* the trap, with the kernel's root active again, and only then is the
\* cause decoded and the call dispatched (the queue, the console, memory
\* and the scheduler's record change in no other place once loading is
\* over).
Crossing == pc = "user"

C18_OneCrossingAtATime ==
    /\ [](Crossing => PROCESSES # <<>> /\ satp = HeadProc.satp /\ satp # KernelSatp)
    /\ [](~Crossing => satp = KernelSatp)
    /\ [][/\ (~Crossing /\ Crossing') => pc = "loop"
          /\ Crossing => (pc' = "trap" /\ satp' = KernelSatp)
          /\ (Scheduling /\ <<PROCESSES, console, mem, last>>' # <<PROCESSES, console, mem, last>>)
                => /\ pc \in {"user", "trap"}
                   /\ pc = "user" => <<console, mem, last>>' = <<console, mem, last>>
                   /\ pc = "trap" => satp = KernelSatp]_vars

\* the second process is running after the first one's crossings are over
C18_Witness ==
    /\ Crossing /\ Len(apps) = 2 /\ Len(PROCESSES) = 1 /\ HeadProc.id = 1
    /\ Removed /\ last.pid = 0 /\ calls > 0


\* the trap that entered the monitor and whose SbiRet is about to be handed back
Returned == sbi.mode = "M"

\* C19: a trap whose mcause is not 9 (environment call from S-mode) makes
\* m_trap_handler return the not-supported sentinel (error -2, value 0)
\* whatever a0, a1, fid and eid are, without a store to any device: the
\* UART's holding register, the timer compare register, the finisher and
\* the pending supervisor-timer bit are as they were.
C19_OtherCauseIsUnsupported ==
    [][(sbi.mode = "S" /\ sbi'.mode # "S" /\ sbi'.call.mcause # 9)
           => /\ sbi'.mode = "M"
              /\ sbi'.ret = [error |-> -2, value |-> [i \in 1..(xlen \div 16) |-> 0]]
              /\ sbi'.thr = sbi.thr
              /\ sbi'.mtimecmp = sbi.mtimecmp
              /\ sbi'.finisher = sbi.finisher
              /\ sbi'.stip = sbi.stip]_vars

C19_Witness ==
    /\ Returned
    /\ sbi.call.mcause = 8
    /\ sbi.call.eid = TIMER
    /\ sbi.call.a0 # [i \in 1..(xlen \div 16) |-> 0]
    /\ sbi.stip

\* the 64-bit time a timer call conveys: a0 (low half) and a1 (high half)
\* on the 32-bit target, a0 alone on the 64-bit target
TimeOf(call) == IF xlen = 64 THEN call.a0 ELSE call.a0 \o call.a1

\* C20: an SBI timer call (mcause 9, eid TIMER) conveying the time T leaves
\* mtimecmp equal to T, the pending supervisor-timer bit clear and returns
\* success(0), on both targets and whatever the other registers hold.
C20_TimerProgramsExactTime ==
    (Returned /\ sbi.call.mcause = 9 /\ sbi.call.eid = TIMER)
        => /\ sbi.mtimecmp = TimeOf(sbi.call)
           /\ ~sbi.stip
           /\ sbi.ret = [error |-> 0, value |-> [i \in 1..(xlen \div 16) |-> 0]]

\* a register of the build with all bits clear / all bits set, and a byte
\* widened to a register
ZeroReg    == [i \in 1..(xlen \div 16) |-> 0]
OnesReg    == [i \in 1..(xlen \div 16) |-> 65535]
ByteReg(b) == [i \in 1..(xlen \div 16) |-> IF i = 1 THEN b ELSE 0]

\* C21: legacy console getchar (mcause 9, eid 2) returns within the
\* handler, never from a wait loop: success with the all-bits-set sentinel
\* exactly when no byte waits in the receive buffer (data-ready clear),
\* success with exactly the waiting byte otherwise, and the sentinel is the
\* result for no byte value 0..255.
C21_GetcharNeverBlocks ==
    [][(sbi.mode = "S" /\ sbi'.mode # "S" /\ sbi'.call.mcause = 9 /\ sbi'.call.eid = 2)
           => /\ sbi'.mode = "M"
              /\ sbi'.ret.error = 0
              /\ sbi.rx = None => sbi'.ret.value = OnesReg
              /\ sbi.rx # None => sbi'.ret.value = ByteReg(sbi.rx)
              /\ sbi'.ret.value = OnesReg <=> sbi.rx = None
              /\ \A b \in 0..255 : ByteReg(b) # OnesReg]_vars

C21_Witness ==
    /\ Returned
    /\ sbi.call.mcause = 9
    /\ sbi.call.eid = 2
    /\ sbi.ret = [error |-> 0, value |-> ByteReg(255)]
    /\ sbi.rx = None

\* C22: a system-reset call (mcause 9, eid SRST) with function id 0 stores
\* exactly one code to the finisher, 0x5555 when the reason (a1) is 0 and
\* 0x3333 otherwise, whatever the type (a0), and never returns; legacy
\* shutdown (eid 8) stores 0x5555 and never returns; a system-reset call
\* with another function id returns the not-supported sentinel and stores
\* nothing to the finisher.
C22_ResetWritesOneCodeAndHalts ==
    [][/\ (sbi.mode = "S" /\ sbi'.mode # "S" /\ sbi'.call.mcause = 9
              /\ sbi'.call.eid = 1397904212 /\ sbi'.call.fid = 0)
          => /\ sbi'.finisher = Append(sbi.finisher, IF sbi'.call.a1 = ZeroReg THEN 21845
                                                                               ELSE 13107)
             /\ sbi'.mode = "halt"
       /\ (sbi.mode = "S" /\ sbi'.mode # "S" /\ sbi'.call.mcause = 9 /\ sbi'.call.eid = 8)
          => /\ sbi'.finisher = Append(sbi.finisher, 21845)
             /\ sbi'.mode = "halt"
       /\ (sbi.mode = "S" /\ sbi'.mode # "S" /\ sbi'.call.mcause = 9
              /\ sbi'.call.eid = 1397904212 /\ sbi'.call.fid # 0)
          => /\ sbi'.finisher = sbi.finisher
             /\ sbi'.mode = "M"
             /\ sbi'.ret = [error |-> -2, value |-> ZeroReg]
       /\ sbi.mode = "halt"
          => /\ sbi'.mode = "halt"
             /\ sbi'.finisher = sbi.finisher
             /\ sbi'.ret = sbi.ret
             /\ Len(sbi.finisher) = 1]_vars

C22_Witness ==
    /\ sbi.mode = "halt"
    /\ sbi.call.eid = 1397904212
    /\ sbi.call.a0 = ZeroReg
    /\ sbi.call.a1 = OnesReg
    /\ sbi.finisher = <<13107>>
    /\ sbi.thr = None

\* a putchar call (mcause 9, eid 1) is being served / has been answered
PutcharCall(s) == s.call.mcause = 9 /\ s.call.eid = 1
Spinning       == sbi.mode = "spin"
TxReady        == (lsr(sbi) \div 32) % 2 = 1

\* C23: legacy console putchar stores to the UART's transmit register
\* exactly once per call, the low 8 bits of a0, and only when bit 5 of the
\* line-status register is set: the store happens in the step that ends
\* the call with success(0), not before, and nothing else of the monitor
\* stores there; and if a waiting putchar always sees the UART become
\* ready at some time, every putchar call is answered with success(0).
C23_PutcharWritesOnceWhenReady ==
    /\ [][/\ (sbi.mode \in {"S", "spin"} /\ sbi'.mode = "M" /\ PutcharCall(sbi'))
             => /\ TxReady
                /\ sbi.thr = None
                /\ sbi'.thr = sbi'.call.a0[1] % 256
                /\ sbi'.ret = [error |-> 0, value |-> ZeroReg]
          /\ (sbi.mode = "S" /\ sbi'.mode = "spin")
             => /\ PutcharCall(sbi')
                /\ ~TxReady
                /\ sbi'.thr = sbi.thr
          /\ (sbi.mode = "spin" /\ sbi'.mode = "spin") => sbi'.thr \in {sbi.thr, None}
          /\ (sbi'.thr # sbi.thr /\ sbi'.thr # None)
             => (sbi.mode \in {"S", "spin"} /\ sbi'.mode = "M" /\ PutcharCall(sbi'))]_vars
    /\ [](Spinning => <>(~Spinning \/ TxReady))
       => ((sbi.mode # "S" /\ PutcharCall(sbi))
              ~> (Returned /\ PutcharCall(sbi)
                     /\ sbi.ret = [error |-> 0, value |-> ZeroReg]))

C23_Witness ==
    /\ Returned
    /\ PutcharCall(sbi)
    /\ sbi.call.a0[1] = 321
    /\ sbi.thr = 65
    /\ sbi.ret = [error |-> 0, value |-> ZeroReg]

\* the extension id a register holds (None when it is no id below 2^31)
EidOf(w) ==
    IF w[2] < 32768 /\ \A i \in DOMAIN w : i > 2 => w[i] = 0 THEN w[1] + 65536 * w[2] ELSE None

\* the monitor services extension e: for some function id a call from
\* S-mode is answered otherwise than by the not-supported sentinel
Serviced(e) ==
    \E fid \in 0..7, a0 \in SbiWords, a1 \in SbiWords :
        match_eid([sbi EXCEPT !.ret = NoRet], a0, a1, fid, e).ret
            # [error |-> -2, value |-> ZeroReg]

\* C28: when the probe function of the base extension (eid 0x10, fid 3)
\* answers a call from S-mode with a non-zero value for the extension id in
\* a0, the monitor services that extension for at least one function id.
C28_ProbeReportsOnlyServiced ==
    (Returned /\ sbi.call.mcause = 9 /\ sbi.call.eid = 16 /\ sbi.call.fid = 3
        /\ sbi.ret.error = 0 /\ sbi.ret.value # ZeroReg)
        => Serviced(EidOf(sbi.call.a0))

\* every cell of [va, va + n) lies in a page that p maps user-accessible
\* with the flags in need
RangeUserMapped(p, va, n, need) ==
    \A k \in 0..(n - 1) :
       /\ (va + k) \div PageSize \in VPNs
       /\ Permitted(p, va + k, need \cup {"U", "V"})

\* C24: a WRITE on a supported fd whose range [buf, buf + count) is not
\* wholly in pages the caller maps user-readable, and a CLOCK_GETTIME on
\* the monotonic clock whose time pair is not wholly in pages the caller
\* maps user-writable, return -1 and neither print nor write memory; so
\* every byte the kernel reads or writes for a user lies in such a page.
C24_WholeRangeIsUserMapped ==
    [][(\/ /\ Ecall({WRITE}) /\ HeadProc.context.a0 \in {STDOUT, STDDEBUG}
           /\ ~RangeUserMapped(HeadProc, HeadProc.context.a1, HeadProc.context.a2, {"R"})
        \/ /\ Ecall({CLOCK_GETTIME}) /\ HeadProc.context.a0 = CLOCK_MONOTONIC
           /\ ~RangeUserMapped(HeadProc, HeadProc.context.a1, TimeSpecLen, {"W"}))
          => /\ pc' = "loop"
             /\ PROCESSES'[1].context.a0 = -1
             /\ console' = console
             /\ mem' = mem]_vars

\* the k-th answer of next is an image, and the place the table gives it
IsImage(k)  == appit.out[k].ptr # None
PlaceOf(k)  == appit.meta.base + (k - 1) * appit.meta.step

\* C25: AppIterator::next answers with exactly `count` images, in table
\* order, and with None on every later call; image i is, at every later
\* time, byte for byte what is embedded between table offset i and offset
\* i + 1; it lies at base + i * step when that address is not 0, with the
\* rest of its slot zeroed when it is handed out, and where it is embedded
\* otherwise.
C25_IteratorYieldsEmbeddedImages ==
    appit.st # "idle" =>
       /\ appit.st = "ok"
       /\ appit.i = (IF Len(appit.out) < appit.meta.count THEN Len(appit.out)
                                                          ELSE appit.meta.count)
       /\ \A k \in 1..Len(appit.out) :
             /\ IsImage(k) <=> k <= appit.meta.count
             /\ IsImage(k) =>
                   /\ appit.out[k].len = appit.meta.first[k + 1] - appit.meta.first[k]
                   /\ appit.out[k].ptr = (IF PlaceOf(k) # 0 THEN PlaceOf(k)
                                                            ELSE appit.meta.first[k])
                   /\ \A j \in 0..(appit.out[k].len - 1) :
                         appit.mem[appit.out[k].ptr + j] = 100 + appit.meta.first[k] + j
                   /\ (k = Len(appit.out) /\ PlaceOf(k) # 0) =>
                         \A a \in (PlaceOf(k) + appit.out[k].len)..(PlaceOf(k) + 4 - 1) :
                            appit.mem[a] = 0

\* C26: for counter values c1 <= c2 of the counter's width, the nanosecond
\* time c * 10000 / 125 as a machine word and the millisecond time made of
\* it are both read, and the time at c1 is not above the time at c2, on
\* the 64-bit and on the 32-bit build.
C26_ClockIsMonotonic ==
    clk.st # "idle" =>
       /\ clk.st = "read"
       /\ Leq(clk.ns[1], clk.ns[2])
       /\ Leq(clk.ms[1], clk.ms[2])

\* C27: once the scheduler runs, with every crossing trapping in the end
\* and only finitely many handled syscalls other than EXIT, the run queue
\* never grows, and the scheduler comes to the system reset with the
\* queue empty.
C27_SchedulerDrainsAndResets ==
    /\ [][pc # "load" => Len(PROCESSES') <= Len(PROCESSES)]_vars
    /\ (pc = "loop") ~> (pc = "reset" /\ PROCESSES = <<>>)
====
